---------------------------- MODULE Spec2Model ----------------------------
(***************************************************************************)
(* tft-synapse: rule-based augment suggester (src/src/main.rs).            *)
(*                                                                         *)
(* main scores every offered augment with score_one, sorts the scored     *)
(* list by final score (descending, stable) and prints one report entry   *)
(* per augment.                                                            *)
(*                                                                         *)
(* Modelling conventions                                                   *)
(*  - A Rust String that the code inspects character by character (the    *)
(*    augment identifier, the stage) is a sequence of one-character       *)
(*    strings; the typographic apostrophe is the token "U+2019" and the  *)
(*    backtick the token "U+0060".                                        *)
(*    Strings used only as map keys (traits, components, tags) are TLA+   *)
(*    strings.                                                             *)
(*  - f32 values are exact rationals [n |-> numerator, d |-> denominator] *)
(*    in lowest terms with d > 0; i32 values are integers and every input *)
(*    is drawn from sets far inside the i32 range.                         *)
(*  - A HashMap is a function; the order in which the code iterates it is *)
(*    arbitrary, so it is an input (hash_order) chosen in Init.           *)
(***************************************************************************)
EXTENDS Integers, Sequences, FiniteSets, TLC

VARIABLES
    args,        \* parsed command line: augments, stage, hp, traits, parts, taken
    db,          \* loaded YAML data: base_scores, trait_groups, components, cfg
    hash_order,  \* iteration orders of trait_groups and components
    pc,          \* position in main: "score", "print", "done"
    todo,        \* offered augments not yet scored (the for loop of line 86)
    scored,      \* Vec of (name, score, mult, detail)
    report       \* entries printed so far

vars == <<args, db, hash_order, pc, todo, scored, report>>

---------------------------------------------------------------------------
(* Bounds of the model *)

\* largest count of a trait in the state (counts range over -1..MaxCount)
MaxCount == 4
\* longest stage string
MaxStageLen == 3
\* longest list of offered augments
MaxOffered == 3

---------------------------------------------------------------------------
(* Exact rationals standing for f32 *)

Abs(x) == IF x < 0 THEN -x ELSE x

RECURSIVE GCD(_, _)
GCD(a, b) == IF b = 0 THEN a ELSE GCD(b, a % b)

Rat(n, d) ==
    LET s == IF d < 0 THEN -1 ELSE 1
        g == GCD(Abs(n), Abs(d))
    IN  [n |-> (s * n) \div g, d |-> (s * d) \div g]

Zero == Rat(0, 1)
One == Rat(1, 1)
FromInt(k) == Rat(k, 1)

RAdd(x, y) == Rat(x.n * y.d + y.n * x.d, x.d * y.d)
RMul(x, y) == Rat(x.n * y.n, x.d * y.d)
RLt(x, y) == x.n * y.d < y.n * x.d
RLe(x, y) == x.n * y.d <= y.n * x.d

\* f32::clamp(0.0, 1.0)
clamp01(x) == IF RLt(x, Zero) THEN Zero ELSE IF RLt(One, x) THEN One ELSE x

---------------------------------------------------------------------------
(* Characters and strings *)

Upper == <<"A","B","C","D","E","F","G","H","I","J","K","L","M",
           "N","O","P","Q","R","S","T","U","V","W","X","Y","Z">>
Lower == <<"a","b","c","d","e","f","g","h","i","j","k","l","m",
           "n","o","p","q","r","s","t","u","v","w","x","y","z">>

ToLowerChar(c) ==
    IF \E i \in 1..26 : Upper[i] = c
    THEN Lower[CHOOSE i \in 1..26 : Upper[i] = c]
    ELSE c

\* str::to_lowercase
to_lowercase(s) == [i \in 1..Len(s) |-> ToLowerChar(s[i])]

Digits == <<"0","1","2","3","4","5","6","7","8","9">>
IsDigit(c) == \E i \in 1..10 : Digits[i] = c
DigitVal(c) == (CHOOSE i \in 1..10 : Digits[i] = c) - 1

I32_MAX == 2147483647

None == [some |-> FALSE]
Some(v) == [some |-> TRUE, val |-> v]

\* the digits accumulated as i32 with checked arithmetic: upwards after no
\* sign or '+', downwards after '-'; None on overflow
RECURSIVE DigitsValue(_, _, _)
DigitsValue(s, acc, negative) ==
    IF s = <<>> THEN Some(acc)
    ELSE LET v == DigitVal(Head(s))
         IN  IF negative
             THEN IF -acc > (IF v = 0 THEN I32_MAX ELSE I32_MAX - (v - 1)) \div 10
                  THEN None
                  ELSE DigitsValue(Tail(s), acc * 10 - v, negative)
             ELSE IF acc > (I32_MAX - v) \div 10
                  THEN None
                  ELSE DigitsValue(Tail(s), acc * 10 + v, negative)

\* str::parse::<i32>().ok(): an optional sign, then one or more digits
parse_i32(s) ==
    LET signed == s # <<>> /\ Head(s) \in {"+", "-"}
        body == IF signed THEN Tail(s) ELSE s
    IN  IF body = <<>> \/ \E i \in 1..Len(body) : ~IsDigit(body[i]) THEN None
        ELSE DigitsValue(body, 0, signed /\ Head(s) = "-")

\* stage.split('-').next(): the text before the first '-' (always present)
first_field(s) ==
    IF \E i \in 1..Len(s) : s[i] = "-"
    THEN SubSeq(s, 1, (CHOOSE i \in 1..Len(s) :
                          s[i] = "-" /\ \A j \in 1..(i-1) : s[j] # "-") - 1)
    ELSE s

---------------------------------------------------------------------------
(* The heuristics *)

\* breaks.keys() collected and sorted ascending
RECURSIVE SortedSeq(_)
SortedSeq(S) ==
    IF S = {} THEN <<>>
    ELSE LET m == CHOOSE x \in S : \A y \in S : x <= y
         IN  <<m>> \o SortedSeq(S \ {m})

stops_of(breaks) == SortedSeq(DOMAIN breaks)

\* mutant: the first stop at or above cur
find_next_ge(stops, cur) ==
    IF \E i \in 1..Len(stops) : stops[i] >= cur
    THEN Some(stops[CHOOSE i \in 1..Len(stops) :
                       stops[i] >= cur /\ \A j \in 1..(i-1) : ~(stops[j] >= cur)])
    ELSE None

\* stops.iter().copied().find(|bp| bp > cur)
find_next(stops, cur) ==
    IF \E i \in 1..Len(stops) : stops[i] > cur
    THEN Some(stops[CHOOSE i \in 1..Len(stops) :
                       stops[i] > cur /\ \A j \in 1..(i-1) : ~(stops[j] > cur)])
    ELSE None

Max(a, b) == IF a >= b THEN a ELSE b

\* mutant: the distance taken as nxt + cur
RECURSIVE proximity_sum_sign_slip(_, _, _)
proximity_sum_sign_slip(traits, stops, prefer) ==
    IF prefer = <<>> THEN Zero
    ELSE LET t == prefer[Len(prefer)]
             rest == proximity_sum_sign_slip(traits, stops,
                                             SubSeq(prefer, 1, Len(prefer) - 1))
         IN  IF t \in DOMAIN traits
             THEN LET nxt == find_next(stops, traits[t])
                  IN  IF nxt.some
                      THEN RAdd(rest, Rat(1, Max(nxt.val + traits[t], 1)))
                      ELSE rest
             ELSE rest

RECURSIVE proximity_sum(_, _, _)
proximity_sum(traits, stops, prefer) ==
    IF prefer = <<>> THEN Zero
    ELSE LET t == prefer[Len(prefer)]
             rest == proximity_sum(traits, stops, SubSeq(prefer, 1, Len(prefer) - 1))
         IN  IF t \in DOMAIN traits
             THEN LET nxt == find_next(stops, traits[t])
                  IN  IF nxt.some
                      THEN RAdd(rest, Rat(1, Max(nxt.val - traits[t], 1)))
                      ELSE rest
             ELSE rest

proximity_to_next_tier(traits, breaks, prefer) ==
    clamp01(proximity_sum(traits, stops_of(breaks), prefer))

GenericFamily ==
    { <<"c","o","m","p","o","n","e","n","t"," ","g","r","a","b"," ","b","a","g">>,
      <<"p","o","r","t","a","b","l","e"," ","f","o","r","g","e">>,
      <<"p","a","n","d","o","r","a","U+2019","s"," ","i","t","e","m","s">>,
      <<"p","a","n","d","o","r","a","s"," ","i","t","e","m","s">>,
      <<"p","a","n","d","o","r","a","'","s"," ","i","t","e","m","s">> }

BeltChainFamily ==
    { <<"s","u","n","f","i","r","e"," ","b","o","a","r","d">>,
      <<"e","x","i","l","e","s">>,
      <<"t","r","i","u","m","p","h","a","n","t"," ","r","e","t","u","r","n">> }

\* parts.get(k).unwrap_or(&0)
get_or_0(m, k) == IF k \in DOMAIN m THEN m[k] ELSE 0

\* slam.iter().map(|(k,v)| parts.get(k).unwrap_or(&0) * v).sum(), in iteration order
RECURSIVE slam_sum(_, _, _)
slam_sum(parts, slam, order) ==
    IF order = <<>> THEN 0
    ELSE get_or_0(parts, Head(order)) * slam[Head(order)]
         + slam_sum(parts, slam, Tail(order))

\* mutant: the identifier compared without lowercasing
item_slam_bonus_case_sensitive(parts, augment, slam, order) ==
    IF augment \in GenericFamily
    THEN clamp01(Rat(slam_sum(parts, slam, order), 20))
    ELSE IF augment \in BeltChainFamily
    THEN clamp01(Rat(get_or_0(parts, "Belt") * 10 + get_or_0(parts, "Chain") * 9, 15))
    ELSE Zero

item_slam_bonus(parts, augment, slam, order) ==
    LET aug == to_lowercase(augment)
    IN  IF aug \in GenericFamily
        THEN clamp01(Rat(slam_sum(parts, slam, order), 20))
        ELSE IF aug \in BeltChainFamily
        THEN clamp01(Rat(get_or_0(parts, "Belt") * 10 + get_or_0(parts, "Chain") * 9, 15))
        ELSE Zero

stage_round(stage) ==
    LET p == parse_i32(first_field(stage))
    IN  IF p.some THEN p.val ELSE 2

\* mutant: the round not offset by 2
stage_urgency_from_zero(stage) == clamp01(Rat(stage_round(stage), 4))

stage_urgency(stage) == clamp01(Rat(stage_round(stage) - 2, 4))

\* mutant: no clamp
hp_danger_unclamped(hp) == Rat(60 - hp, 60)

hp_danger(hp) == clamp01(Rat(60 - hp, 60))

\* mutant: identifiers compared ignoring case
conflict_ignoring_case(taken, augment) ==
    IF \E i \in 1..Len(taken) : to_lowercase(taken[i]) = to_lowercase(augment)
    THEN One ELSE Zero

conflict(taken, augment) ==
    IF \E i \in 1..Len(taken) : taken[i] = augment THEN One ELSE Zero

\* synergy_tag_bonus is called at line 138 and defined nowhere in main.rs.
\* Per the specification: every preferred attribute with a nonzero recorded
\* count adds one fixed contribution, and the total is clamped to [0,1].
\* The contribution is not given; 2/5 lets three attributes exceed the cap.
SYNERGY_STEP == Rat(2, 5)

\* mutant: every recorded attribute counts, a zero count included
RECURSIVE synergy_sum_recorded(_, _)
synergy_sum_recorded(prefer, traits) ==
    IF prefer = <<>> THEN Zero
    ELSE LET t == prefer[Len(prefer)]
             rest == synergy_sum_recorded(SubSeq(prefer, 1, Len(prefer) - 1), traits)
         IN  IF t \in DOMAIN traits THEN RAdd(rest, SYNERGY_STEP) ELSE rest

RECURSIVE synergy_sum(_, _)
synergy_sum(prefer, traits) ==
    IF prefer = <<>> THEN Zero
    ELSE LET t == prefer[Len(prefer)]
             rest == synergy_sum(SubSeq(prefer, 1, Len(prefer) - 1), traits)
         IN  IF t \in DOMAIN traits /\ traits[t] # 0
             THEN RAdd(rest, SYNERGY_STEP)
             ELSE rest

synergy_tag_bonus(prefer, traits) == clamp01(synergy_sum(prefer, traits))

\* mutant: stops at the first group a tag names
RECURSIVE tags_to_first_group(_, _, _)
tags_to_first_group(tags, groups, order) ==
    IF order = <<>> THEN <<>>
    ELSE IF \E i \in 1..Len(tags) : tags[i] = Head(order)
    THEN groups[Head(order)]
    ELSE tags_to_first_group(tags, groups, Tail(order))

\* for (gname, g) in groups, in the map's iteration order
RECURSIVE tags_to_prefer_traits(_, _, _)
tags_to_prefer_traits(tags, groups, order) ==
    IF order = <<>> THEN <<>>
    ELSE LET gname == Head(order)
             rest == tags_to_prefer_traits(tags, groups, Tail(order))
         IN  IF \E i \in 1..Len(tags) : tags[i] = gname
             THEN groups[gname] \o rest
             ELSE rest

---------------------------------------------------------------------------
(* Score composer *)

base_of(aug_db, augment) ==
    IF augment \in DOMAIN aug_db THEN aug_db[augment].score ELSE FromInt(60)

tags_of(aug_db, augment) ==
    IF augment \in DOMAIN aug_db THEN aug_db[augment].tags ELSE <<>>

\* mutant: the hp term left out
multiplier_without_hp(w, det) ==
    RAdd(RAdd(RAdd(RAdd(RAdd(One,
        RMul(w.W_TRAIT, det.f_trait)),
        RMul(w.W_ITEMS, det.f_items)),
        RMul(w.W_STAGE, det.f_stage)),
        RMul(w.W_SYNERGY, det.f_syn)),
        RMul(w.W_CONFLICT, det.f_conf))

multiplier(w, det) ==
    RAdd(RAdd(RAdd(RAdd(RAdd(RAdd(One,
        RMul(w.W_TRAIT, det.f_trait)),
        RMul(w.W_ITEMS, det.f_items)),
        RMul(w.W_STAGE, det.f_stage)),
        RMul(w.W_HP, det.f_hp)),
        RMul(w.W_SYNERGY, det.f_syn)),
        RMul(w.W_CONFLICT, det.f_conf))

detail_of(augment, D, ord, stage, hp, state_traits, parts, taken) ==
    LET prefer_traits ==
            tags_to_prefer_traits(tags_of(D.base_scores, augment),
                                  D.trait_groups, ord.groups)
    IN  [ base    |-> base_of(D.base_scores, augment),
          f_trait |-> proximity_to_next_tier(state_traits, D.cfg.trait_breakpoints,
                                             prefer_traits),
          f_items |-> item_slam_bonus(parts, augment, D.components, ord.components),
          f_stage |-> stage_urgency(stage),
          f_hp    |-> hp_danger(hp),
          f_syn   |-> synergy_tag_bonus(prefer_traits, state_traits),
          f_conf  |-> conflict(taken, augment) ]

score_one(augment, D, ord, stage, hp, state_traits, parts, taken) ==
    LET det == detail_of(augment, D, ord, stage, hp, state_traits, parts, taken)
        mult == multiplier(D.cfg.weights, det)
    IN  [score |-> RMul(det.base, mult), mult |-> mult, detail |-> det]

---------------------------------------------------------------------------
(* Ranker: Vec::sort_by is a stable sort *)

\* mutant: an augment also goes before one of equal score
goes_before_or_ties(x, y) == RLe(y.score, x.score)

\* the comparator of line 93, y.1.partial_cmp(&x.1), says Less: x goes before y
goes_before(x, y) == RLt(y.score, x.score)

\* e placed behind every element it does not go before
insert_sorted(sorted, e) ==
    LET k == Cardinality({i \in 1..Len(sorted) : ~goes_before(e, sorted[i])})
    IN  SubSeq(sorted, 1, k) \o <<e>> \o SubSeq(sorted, k + 1, Len(sorted))

RECURSIVE sort_by(_)
sort_by(v) ==
    IF v = <<>> THEN <<>>
    ELSE insert_sorted(sort_by(SubSeq(v, 1, Len(v) - 1)), v[Len(v)])

---------------------------------------------------------------------------
(* Explainer: the println! lines 97-105 *)

RECURSIVE Pow10(_)
Pow10(k) == IF k = 0 THEN 1 ELSE 10 * Pow10(k - 1)

\* {:.k}: the number of units of 10^-k printed, rounded half to even
fmt(x, k) ==
    LET num == x.n * Pow10(k)
        q == num \div x.d
        r == num - q * x.d
    IN  IF 2 * r < x.d THEN q
        ELSE IF 2 * r > x.d THEN q + 1
        ELSE IF q % 2 = 0 THEN q ELSE q + 1

Labels == << <<"Trait proximity", "f_trait">>, <<"Item slam", "f_items">>,
             <<"Stage urgency", "f_stage">>, <<"HP danger", "f_hp">>,
             <<"Synergy tags", "f_syn">>, <<"Conflict (penalty)", "f_conf">> >>

RECURSIVE reasons_from(_, _)
reasons_from(d, k) ==
    IF k > Len(Labels) THEN <<>>
    ELSE IF d[Labels[k][2]] # Zero
    THEN <<[label |-> Labels[k][1], value |-> fmt(d[Labels[k][2]], 2)]>>
         \o reasons_from(d, k + 1)
    ELSE reasons_from(d, k + 1)

\* mutant: every heuristic listed, zero or not
reasons_all(d) ==
    [k \in 1..Len(Labels) |-> [label |-> Labels[k][1], value |-> fmt(d[Labels[k][2]], 2)]]

reasons(d) == reasons_from(d, 1)

print_entry(i, e) ==
    [ rank |-> i + 1, name |-> e.name, score |-> fmt(e.score, 1),
      base |-> fmt(e.detail.base, 1), mult |-> fmt(e.mult, 3),
      reasons |-> reasons(e.detail) ]

---------------------------------------------------------------------------
(* Inputs *)

\* augment identifiers
SunfireBoard  == <<"S","u","n","f","i","r","e"," ","B","o","a","r","d">>
SunfireLower  == <<"s","u","n","f","i","r","e"," ","b","o","a","r","d">>
SunfireUpper  == <<"S","U","N","F","I","R","E"," ","B","O","A","R","D">>
Sunfire       == <<"S","u","n","f","i","r","e">>
Exiles        == <<"E","x","i","l","e","s">>
ExilesLower   == <<"e","x","i","l","e","s">>
Exile         == <<"E","x","i","l","e">>
PortableForge == <<"P","o","r","t","a","b","l","e"," ","F","o","r","g","e">>
PandoraCurly  == <<"P","a","n","d","o","r","a","U+2019","s"," ","I","t","e","m","s">>
PandoraAscii  == <<"P","a","n","d","o","r","a","'","s"," ","I","t","e","m","s">>
PandoraPlain  == <<"P","a","n","d","o","r","a","s"," ","I","t","e","m","s">>
PandoraTick   == <<"P","a","n","d","o","r","a","U+0060","s"," ","I","t","e","m","s">>
GrabBag       == <<"C","o","m","p","o","n","e","n","t"," ","G","r","a","b"," ","B","a","g">>
Triumphant    == <<"T","r","i","u","m","p","h","a","n","t"," ","R","e","t","u","r","n">>
JeweledLotus  == <<"J","e","w","e","l","e","d"," ","L","o","t","u","s">>
Mystery       == <<"M","y","s","t","e","r","y">>

Stage32 == <<"3","-","2">>

\* all sequences over S of length at most n
RECURSIVE SeqsUpTo(_, _)
SeqsUpTo(S, n) ==
    IF n = 0 THEN {<<>>}
    ELSE LET shorter == SeqsUpTo(S, n - 1)
         IN  shorter \cup {Append(q, x) : q \in {r \in shorter : Len(r) = n - 1}, x \in S}

\* all HashMaps with keys among K and values in V
PartialMaps(K, V) == UNION {[D -> V] : D \in SUBSET K}

\* the possible iteration orders of a HashMap
Orders(m) ==
    {q \in [1..Cardinality(DOMAIN m) -> DOMAIN m] :
        \A i, j \in DOMAIN q : i # j => q[i] # q[j]}

FirstOrder(m) == CHOOSE q \in Orders(m) : TRUE

TraitGroups == [caster |-> <<"Sorcerer">>, tank |-> <<"Bruiser", "Sorcerer">>]

Catalog(lotusTags) ==
    (SunfireBoard :> [score |-> FromInt(70), tags |-> <<"tank">>])
    @@ (Exiles :> [score |-> FromInt(60), tags |-> <<>>])
    @@ (PortableForge :> [score |-> Rat(131, 2), tags |-> <<"caster">>])
    @@ (JeweledLotus :> [score |-> FromInt(80), tags |-> lotusTags])

Components == [Belt |-> 10, Chain |-> 9, Rod |-> 6]

Weights(wConflict) ==
    [ W_TRAIT |-> Rat(1, 4), W_ITEMS |-> Rat(1, 5), W_STAGE |-> Rat(1, 10),
      W_HP |-> Rat(3, 20), W_CONFLICT |-> wConflict, W_SYNERGY |-> Rat(1, 8) ]

Breakpoints == (2 :> 1) @@ (4 :> 2) @@ (6 :> 3)

Db(lotusTags, components, wConflict, breaks) ==
    [ base_scores  |-> Catalog(lotusTags),
      trait_groups |-> TraitGroups,
      components   |-> components,
      cfg |-> [weights |-> Weights(wConflict), trait_breakpoints |-> breaks] ]

Args(augments, stage, hp, traits, parts, taken) ==
    [ augments |-> augments, stage |-> stage, hp |-> hp,
      traits |-> traits, parts |-> parts, taken |-> taken ]

EmptyMap == [x \in {} |-> 0]

Start ==
    /\ pc = "score"
    /\ todo = args.augments
    /\ scored = <<>>
    /\ report = <<>>

\* trait counts, breakpoints and tags vary
InitTraits ==
    /\ \E traits \in PartialMaps({"Sorcerer", "Bruiser"}, -1..MaxCount) :
          args = Args(<<JeweledLotus>>, Stage32, 60, traits, EmptyMap, <<>>)
    /\ \E tags \in {<<>>, <<"caster">>, <<"tank", "caster">>, <<"support">>},
          breaks \in PartialMaps({1, 3, 5}, {1, 6}) :
          db = Db(tags, Components, Rat(-1, 2), breaks)
    /\ \E o \in Orders(TraitGroups) :
          hash_order = [groups |-> o, components |-> FirstOrder(Components)]
    /\ Start

\* component inventory, component weights and the augment's name vary
InitParts ==
    /\ \E a \in {SunfireBoard, SunfireLower, SunfireUpper, Sunfire, Exiles, Triumphant,
                 PortableForge, GrabBag, PandoraCurly, PandoraAscii, PandoraPlain,
                 PandoraTick, JeweledLotus},
          parts \in PartialMaps({"Belt", "Chain", "Rod"}, {-1, 0, 1, 2}) :
          args = Args(<<a>>, Stage32, 60, ("Sorcerer" :> 3), parts, <<SunfireBoard>>)
    /\ \E components \in {Components, [Belt |-> 3, Sword |-> 7]} :
          /\ db = Db(<<"caster">>, components, Rat(-1, 2), Breakpoints)
          /\ \E o \in Orders(components) :
                hash_order = [groups |-> FirstOrder(TraitGroups), components |-> o]
    /\ Start

\* the stage string and hp vary
InitStage ==
    /\ \E stage \in SeqsUpTo({"1", "2", "4", "6", "-", "+", "x"}, MaxStageLen),
          hp \in {-5, 0, 30, 60, 90} :
          args = Args(<<Mystery>>, stage, hp, EmptyMap, EmptyMap, <<>>)
    /\ db = Db(<<>>, Components, Rat(-1, 2), Breakpoints)
    /\ hash_order = [groups |-> FirstOrder(TraitGroups),
                     components |-> FirstOrder(Components)]
    /\ Start

\* the offered list, the taken list and the conflict coefficient vary
InitOffered ==
    /\ \E augments \in SeqsUpTo({Mystery, Exile, Exiles, SunfireBoard}, MaxOffered),
          taken \in {<<>>, <<Exiles>>, <<ExilesLower, Sunfire, Mystery>>},
          parts \in {EmptyMap, [Belt |-> 2, Chain |-> 1]} :
          args = Args(augments, Stage32, 60, ("Bruiser" :> 1), parts, taken)
    /\ \E wConflict \in {Rat(-1, 2), Zero} :
          db = Db(<<>>, Components, wConflict, Breakpoints)
    /\ hash_order = [groups |-> FirstOrder(TraitGroups),
                     components |-> FirstOrder(Components)]
    /\ Start

Init == InitTraits \/ InitParts \/ InitStage \/ InitOffered

---------------------------------------------------------------------------
(* main *)

\* one iteration of the loop of lines 86-92
ScoreNext ==
    /\ pc = "score"
    /\ todo # <<>>
    /\ LET a == Head(todo)
           r == score_one(a, db, hash_order, args.stage, args.hp,
                          args.traits, args.parts, args.taken)
       IN  scored' = Append(scored, [name |-> a, score |-> r.score,
                                     mult |-> r.mult, detail |-> r.detail])
    /\ todo' = Tail(todo)
    /\ UNCHANGED <<args, db, hash_order, pc, report>>

\* line 93
Sort ==
    /\ pc = "score"
    /\ todo = <<>>
    /\ scored' = sort_by(scored)
    /\ pc' = "print"
    /\ UNCHANGED <<args, db, hash_order, todo, report>>

\* one iteration of the loop of lines 96-107
PrintNext ==
    /\ pc = "print"
    /\ Len(report) < Len(scored)
    /\ report' = Append(report, print_entry(Len(report), scored[Len(report) + 1]))
    /\ UNCHANGED <<args, db, hash_order, pc, todo, scored>>

\* line 108
Finish ==
    /\ pc = "print"
    /\ Len(report) = Len(scored)
    /\ pc' = "done"
    /\ UNCHANGED <<args, db, hash_order, todo, scored, report>>

Next == ScoreNext \/ Sort \/ PrintNext \/ Finish

Spec == Init /\ [][Next]_vars

---------------------------------------------------------------------------
(* Vocabulary of the properties *)

Entries == {scored[i] : i \in 1..Len(scored)}

Range(q) == {q[i] : i \in 1..Len(q)}

RECURSIVE RSetSum(_, _)
RSetSum(S, f) ==
    IF S = {} THEN Zero
    ELSE LET x == CHOOSE y \in S : TRUE
         IN  RAdd(f[x], RSetSum(S \ {x}, f))

RECURSIVE SetSum(_, _)
SetSum(S, f) ==
    IF S = {} THEN 0
    ELSE LET x == CHOOSE y \in S : TRUE
         IN  f[x] + SetSum(S \ {x}, f)

In01(x) == RLe(Zero, x) /\ RLe(x, One)

\* the groups an augment's tags select, and its preferred attributes as the
\* occurrences <<group, position>> (an attribute in two groups occurs twice)
SelectedGroups(a) ==
    IF a \in DOMAIN db.base_scores
    THEN DOMAIN db.trait_groups \cap Range(db.base_scores[a].tags)
    ELSE {}

PreferredSlots(a) ==
    UNION {{<<g, i>> : i \in 1..Len(db.trait_groups[g])} : g \in SelectedGroups(a)}

SlotTrait(slot) == db.trait_groups[slot[1]][slot[2]]

Recorded(t) == t \in DOMAIN args.traits

\* the smallest element of S above c; only used when there is one
NextAbove(S, c) == CHOOSE b \in S : b > c /\ \A x \in S : x > c => b <= x

ProxContribution(S, t) ==
    IF Recorded(t) /\ \E b \in S : b > args.traits[t]
    THEN Rat(1, Max(1, NextAbove(S, args.traits[t]) - args.traits[t]))
    ELSE Zero

\* the proximity bonus of augment a when the breakpoints are the set S
RefProximity(S, a) ==
    clamp01(RSetSum(PreferredSlots(a),
                    [s \in PreferredSlots(a) |-> ProxContribution(S, SlotTrait(s))]))

BreakKeys == DOMAIN db.cfg.trait_breakpoints
BreakValues == {db.cfg.trait_breakpoints[k] : k \in BreakKeys}

---------------------------------------------------------------------------
(* C1 *)

\* C1 as stated: the proximity bonus of every scored augment is the clamped sum,
\* over its preferred attributes with a recorded count, of 1 / max(1, b - count)
\* with b the smallest breakpoint VALUE (what the levels map to) above the count.
C1_ProximityFromValues ==
    \A e \in Entries : e.detail.f_trait = RefProximity(BreakValues, e.name)

\* C1 amended: the same sum with b the smallest KEY of the trait_breakpoints
\* map above the count; attributes without a recorded count or without a key
\* above their count add nothing, and the sum is clamped to [0,1].
C1_ProximityFromKeys ==
    \A e \in Entries : e.detail.f_trait = RefProximity(BreakKeys, e.name)

\* an augment scored strictly between 0 and 1: one preferred attribute is
\* recorded with no key above its count, another is one key away by two, and
\* the keys of the map differ from its values
C1_Witness ==
    \E e \in Entries :
        /\ e.detail.f_trait = Rat(1, 2)
        /\ db.cfg.trait_breakpoints = (1 :> 6) @@ (3 :> 1)
        /\ \E s \in PreferredSlots(e.name) :
              /\ Recorded(SlotTrait(s))
              /\ \A b \in BreakKeys : b <= args.traits[SlotTrait(s)]
        /\ \E s \in PreferredSlots(e.name) :
              /\ Recorded(SlotTrait(s))
              /\ args.traits[SlotTrait(s)] = 1

---------------------------------------------------------------------------
(* C2 *)

Ranked == pc \in {"print", "done"}

Count(q, x) == Cardinality({i \in 1..Len(q) : q[i] = x})

Names(v) == [i \in 1..Len(v) |-> v[i].name]

\* the subsequence of q of the elements in S
RECURSIVE Restrict(_, _)
Restrict(q, S) ==
    IF q = <<>> THEN <<>>
    ELSE IF Head(q) \in S THEN <<Head(q)>> \o Restrict(Tail(q), S)
    ELSE Restrict(Tail(q), S)

\* the augments whose final score equals that of e
Tied(e) == {x.name : x \in {y \in Entries : y.score = e.score}}

\* C2: once sorted, the ranked list holds every offered augment as often as it
\* was offered, final scores never increase along it, and the augments sharing
\* one final score stand in the order in which they were offered.
C2_RankingStable ==
    Ranked =>
        /\ Len(scored) = Len(args.augments)
        /\ \A a \in Range(args.augments) \cup Range(Names(scored)) :
              Count(Names(scored), a) = Count(args.augments, a)
        /\ \A i, j \in 1..Len(scored) :
              i < j => RLe(scored[j].score, scored[i].score)
        /\ \A e \in Entries :
              Restrict(Names(scored), Tied(e)) = Restrict(args.augments, Tied(e))

\* three augments ranked: the one offered last has the highest score and the
\* two offered before it tie and keep their order
C2_Witness ==
    /\ pc = "done"
    /\ Len(scored) = 3
    /\ scored[1].name = args.augments[3]
    /\ scored[2].name = args.augments[1]
    /\ scored[3].name = args.augments[2]
    /\ scored[2].name # scored[3].name
    /\ scored[2].score = scored[3].score
    /\ RLt(scored[2].score, scored[1].score)

---------------------------------------------------------------------------
(* C3 *)

\* C3: every stored heuristic value lies in [0,1], the conflict value is 0 or
\* 1, and with no recorded attribute or no preferred attribute the proximity
\* and synergy values are 0.
C3_HeuristicsBounded ==
    \A e \in Entries :
        /\ In01(e.detail.f_trait)
        /\ In01(e.detail.f_items)
        /\ In01(e.detail.f_stage)
        /\ In01(e.detail.f_hp)
        /\ In01(e.detail.f_syn)
        /\ e.detail.f_conf \in {Zero, One}
        /\ (DOMAIN args.traits = {} \/ PreferredSlots(e.name) = {}) =>
              e.detail.f_trait = Zero /\ e.detail.f_syn = Zero

\* an augment without preferred attributes scored with negative hp and a round
\* beyond 6: both raw values leave [0,1] and are stored as 1
C3_Witness ==
    \E e \in Entries :
        /\ args.hp < 0
        /\ stage_round(args.stage) > 6
        /\ PreferredSlots(e.name) = {}
        /\ e.detail.f_hp = One
        /\ e.detail.f_stage = One
        /\ e.detail.f_trait = Zero

---------------------------------------------------------------------------
(* C4 *)

HeuristicFields == {"f_trait", "f_items", "f_stage", "f_hp", "f_syn", "f_conf"}

WeightOf ==
    [ f_trait |-> "W_TRAIT", f_items |-> "W_ITEMS", f_stage |-> "W_STAGE",
      f_hp |-> "W_HP", f_syn |-> "W_SYNERGY", f_conf |-> "W_CONFLICT" ]

\* 1 + the sum over the six heuristics of coefficient times value
RefMultiplier(d) ==
    RAdd(One, RSetSum(HeuristicFields,
                      [h \in HeuristicFields |->
                          RMul(db.cfg.weights[WeightOf[h]], d[h])]))

\* C4: for every scored augment the multiplier is 1 plus the sum of the six
\* weighted heuristic values, the final score is the base score times the
\* multiplier, the base score is the catalog score or 60 for an augment not in
\* the catalog, and the detail holds the values the heuristics computed.
C4_ScoreComposition ==
    \A e \in Entries :
        /\ e.mult = RefMultiplier(e.detail)
        /\ e.score = RMul(e.detail.base, e.mult)
        /\ e.detail.base = IF e.name \in DOMAIN db.base_scores
                           THEN db.base_scores[e.name].score
                           ELSE FromInt(60)
        /\ e.detail.f_stage = stage_urgency(args.stage)
        /\ e.detail.f_hp = hp_danger(args.hp)
        /\ e.detail.f_conf = conflict(args.taken, e.name)
        /\ e.detail.f_items = item_slam_bonus(args.parts, e.name, db.components,
                                              hash_order.components)

\* an augment missing from the catalog, scored from base 60 with a nonzero
\* stage and hp term
C4_Witness ==
    \E e \in Entries :
        /\ e.name \notin DOMAIN db.base_scores
        /\ e.detail.base = FromInt(60)
        /\ e.detail.f_stage # Zero
        /\ e.detail.f_hp # Zero
        /\ e.mult # One

\* a catalog augment scored with nonzero proximity, item, stage, synergy and
\* conflict values at once
C4_WitnessAllTerms ==
    \E e \in Entries :
        /\ e.name \in DOMAIN db.base_scores
        /\ \A h \in HeuristicFields \ {"f_hp"} : e.detail[h] # Zero

---------------------------------------------------------------------------
(* C5 *)

SameString(s, t) == Len(s) = Len(t) /\ \A i \in 1..Len(s) : s[i] = t[i]

\* C5: the conflict value of a scored augment is 1 exactly when some entry of
\* the taken list is the augment's identifier character for character, and 0
\* otherwise.
C5_ConflictExact ==
    \A e \in Entries :
        /\ (\E i \in 1..Len(args.taken) : SameString(args.taken[i], e.name))
              => e.detail.f_conf = One
        /\ ~(\E i \in 1..Len(args.taken) : SameString(args.taken[i], e.name))
              => e.detail.f_conf = Zero

\* the taken list holds "exiles", "Sunfire" and "Mystery": "Mystery" conflicts,
\* "Exiles" (another case) and "Sunfire Board" (a longer string) do not
C5_Witness ==
    /\ args.taken = <<ExilesLower, Sunfire, Mystery>>
    /\ \E e \in Entries : e.name = Mystery /\ e.detail.f_conf = One
    /\ \E e \in Entries : e.name = Exiles /\ e.detail.f_conf = Zero
    /\ \E e \in Entries : e.name = SunfireBoard /\ e.detail.f_conf = Zero

---------------------------------------------------------------------------
(* C6 *)

BeltChainNames == {SunfireBoard, SunfireLower, SunfireUpper, Exiles, ExilesLower,
                   Triumphant}
GenericNames == {PortableForge, GrabBag, PandoraCurly, PandoraAscii, PandoraPlain}

Held(k) == IF k \in DOMAIN args.parts THEN args.parts[k] ELSE 0

\* C6: an augment of the belt/chain family, in any letter case, gets
\* (Belt x 10 + Chain x 9) / 15 clamped to [0,1]; one of the generic component
\* family gets the sum over the known components of held count x weight,
\* divided by 20 and clamped; every other augment gets exactly 0.
C6_ItemSlam ==
    \A e \in Entries :
        e.detail.f_items =
            IF e.name \in BeltChainNames
            THEN clamp01(Rat(Held("Belt") * 10 + Held("Chain") * 9, 15))
            ELSE IF e.name \in GenericNames
            THEN clamp01(Rat(SetSum(DOMAIN db.components,
                                    [k \in DOMAIN db.components |->
                                        Held(k) * db.components[k]]), 20))
            ELSE Zero

\* "Sunfire Board" scored with {Belt: 2, Chain: 1}: 29 / 15 is stored as 1
C6_Witness ==
    \E e \in Entries :
        /\ e.name = SunfireBoard
        /\ args.parts = [Belt |-> 2, Chain |-> 1]
        /\ e.detail.f_items = One

---------------------------------------------------------------------------
(* C7 *)

\* the decimal value of a digit string
RECURSIVE Decimal(_)
Decimal(s) ==
    IF s = <<>> THEN 0
    ELSE 10 * Decimal(SubSeq(s, 1, Len(s) - 1)) + DigitVal(s[Len(s)])

\* the round a stage string names: the text before its first '-', read as an
\* integer (one '+' may precede the digits); 2 when that is no integer
RefRound(stage) ==
    LET cut == {i \in 1..Len(stage) : stage[i] = "-"}
        n == IF cut = {} THEN Len(stage)
             ELSE (CHOOSE i \in cut : \A j \in cut : i <= j) - 1
        field == SubSeq(stage, 1, n)
        digits == IF n > 0 /\ field[1] = "+" THEN SubSeq(field, 2, n) ELSE field
    IN  IF digits # <<>> /\ \A i \in 1..Len(digits) : IsDigit(digits[i])
        THEN Decimal(digits)
        ELSE 2

\* C7: the stage value is (round - 2) / 4 clamped to [0,1], with the round read
\* before the first '-' and 2 when unreadable: 0 up to round 2, 1 from round 6,
\* and "2-1" gives 0, "4-1" gives 1/2, "6-4" gives 1.
C7_StageUrgency ==
    \A e \in Entries :
        LET r == RefRound(args.stage)
        IN  /\ e.detail.f_stage = clamp01(Rat(r - 2, 4))
            /\ r <= 2 => e.detail.f_stage = Zero
            /\ r >= 6 => e.detail.f_stage = One
            /\ args.stage = <<"2", "-", "1">> => e.detail.f_stage = Zero
            /\ args.stage = <<"4", "-", "1">> => e.detail.f_stage = Rat(1, 2)
            /\ args.stage = <<"6", "-", "4">> => e.detail.f_stage = One

\* stage "4-1" scored as 1/2
C7_Witness ==
    \E e \in Entries :
        /\ args.stage = <<"4", "-", "1">>
        /\ e.detail.f_stage = Rat(1, 2)

---------------------------------------------------------------------------
(* C8 *)

\* the preferred attribute occurrences of a with a nonzero recorded count
Participating(a) ==
    {s \in PreferredSlots(a) : Recorded(SlotTrait(s)) /\ args.traits[SlotTrait(s)] # 0}

\* C8: the synergy value of every scored augment is the fixed contribution
\* times the number of its preferred attributes with a nonzero recorded count,
\* clamped to [0,1], whatever the order in which the groups were visited.
C8_SynergyBreadth ==
    \A e \in Entries :
        e.detail.f_syn =
            clamp01(RMul(FromInt(Cardinality(Participating(e.name))), SYNERGY_STEP))

\* the groups are visited tank first; the preferred attribute occurring twice
\* has count -1 and the third is recorded as zero
C8_Witness ==
    \E e \in Entries :
        /\ hash_order.groups = <<"tank", "caster">>
        /\ Cardinality(PreferredSlots(e.name)) = 3
        /\ "Bruiser" \in DOMAIN args.traits /\ args.traits["Bruiser"] = 0
        /\ "Sorcerer" \in DOMAIN args.traits /\ args.traits["Sorcerer"] = -1
        /\ e.detail.f_syn = Rat(4, 5)

---------------------------------------------------------------------------
(* C9 *)

PreferOf(a) ==
    tags_to_prefer_traits(tags_of(db.base_scores, a), db.trait_groups, hash_order.groups)

\* the counts strictly between c and the nearest stop above c
CloserCounts(c) ==
    IF \E b \in BreakKeys : b > c THEN (c + 1)..(NextAbove(BreakKeys, c) - 1) ELSE {}

\* C9: raising the count of one attribute to any value still below the nearest
\* breakpoint above it, all else equal, never lowers the proximity value.
C9_ProximityMonotone ==
    \A e \in Entries :
        \A t \in DOMAIN args.traits :
            \A c \in CloserCounts(args.traits[t]) :
                RLe(e.detail.f_trait,
                    proximity_to_next_tier([args.traits EXCEPT ![t] = c],
                                           db.cfg.trait_breakpoints, PreferOf(e.name)))

\* a preferred attribute four short of the only stop above it: 1/4 now, 1/2
\* two counts later
C9_Witness ==
    \E e \in Entries :
        /\ args.traits = [Sorcerer |-> 1]
        /\ BreakKeys = {5}
        /\ e.detail.f_trait = Rat(1, 4)
        /\ 3 \in CloserCounts(1)
        /\ proximity_to_next_tier([Sorcerer |-> 3], db.cfg.trait_breakpoints,
                                  PreferOf(e.name)) = Rat(1, 2)

---------------------------------------------------------------------------
(* C10 *)

LabelOrder == <<"Trait proximity", "Item slam", "Stage urgency", "HP danger",
                "Synergy tags", "Conflict (penalty)">>

FieldOf ==
    [h \in Range(LabelOrder) |->
        CASE h = "Trait proximity" -> "f_trait"
          [] h = "Item slam" -> "f_items"
          [] h = "Stage urgency" -> "f_stage"
          [] h = "HP danger" -> "f_hp"
          [] h = "Synergy tags" -> "f_syn"
          [] h = "Conflict (penalty)" -> "f_conf"]

ReasonLabels(r) == [i \in 1..Len(r.reasons) |-> r.reasons[i].label]

\* C10: the k-th report entry carries rank k and the identifier, final score,
\* base score and multiplier of the k-th ranked augment as printed; its reasons
\* are the heuristics with a nonzero value, in the fixed order, each with its
\* value; the printed multiplier is that of all six terms.
C10_Report ==
    \A k \in 1..Len(report) :
        LET r == report[k]
            e == scored[k]
            shown == {h \in Range(LabelOrder) : e.detail[FieldOf[h]] # Zero}
        IN  /\ Ranked
            /\ r.rank = k
            /\ r.name = e.name
            /\ r.score = fmt(e.score, 1)
            /\ r.base = fmt(e.detail.base, 1)
            /\ r.mult = fmt(RefMultiplier(e.detail), 3)
            /\ ReasonLabels(r) = Restrict(LabelOrder, shown)
            /\ \A i \in 1..Len(r.reasons) :
                  r.reasons[i].value = fmt(e.detail[FieldOf[r.reasons[i].label]], 2)

\* a finished report of three entries; the second lists only the stage and the
\* conflict, and its multiplier is below 1
C10_Witness ==
    /\ pc = "done"
    /\ Len(report) = 3
    /\ report[2].rank = 2
    /\ ReasonLabels(report[2]) = <<"Stage urgency", "Conflict (penalty)">>
    /\ report[2].mult < 1000

=============================================================================
